---- MODULE Spec2Model ----
(***************************************************************************)
(* Whooshpad server (src/src/whooshpad/server.py): the action registry     *)
(* KEYS, the platform key resolver _make_key, the screenshot hotkey        *)
(* _screenshot and the request handler WhooshpadHandler served by a        *)
(* single-threaded HTTPServer.                                             *)
(*                                                                         *)
(* Strings the code slices or compares (request paths, action names) are   *)
(* sequences of one-character strings, so that startswith and path[5:]     *)
(* are computed as Python computes them.                                   *)
(***************************************************************************)
EXTENDS Integers, Sequences, FiniteSets, TLC

VARIABLES
    platform,   \* what platform.system() returns in this process
    KEYS,       \* the module-level registry dict, built at import
    backlog,    \* connections waiting in the listening socket's queue
    conns,      \* the requests the server accepted, in the order accepted
    log,        \* every call on the keyboard controller and on the response
    ret         \* the value returned by the last direct call of _make_key

vars == <<platform, KEYS, backlog, conns, log, ret>>

\* ------------------------------------------------------------------ bounds

\* Number of connections that reach the server in one run.
MaxRequests == 2

\* ----------------------------------------------------------- action names

shift_up == <<"s","h","i","f","t","_","u","p">>
shift_down == <<"s","h","i","f","t","_","d","o","w","n">>
steer_left == <<"s","t","e","e","r","_","l","e","f","t">>
steer_right == <<"s","t","e","e","r","_","r","i","g","h","t">>
emote_ == <<"e","m","o","t","e","_">>
emote_1 == emote_ \o <<"1">>
emote_2 == emote_ \o <<"2">>
emote_3 == emote_ \o <<"3">>
emote_4 == emote_ \o <<"4">>
emote_5 == emote_ \o <<"5">>
emote_6 == emote_ \o <<"6">>
emote_7 == emote_ \o <<"7">>
ui_toggle == <<"u","i","_","t","o","g","g","l","e">>
hide_ui == <<"h","i","d","e","_","u","i">>
screenshot == <<"s","c","r","e","e","n","s","h","o","t">>

\* The literal "/key/" of do_POST and the two paths of do_GET.
KeyPrefix == <<"/","k","e","y","/">>
RootPath == <<"/">>
IndexPath == <<"/","i","n","d","e","x",".","h","t","m","l">>

\* The text before {action} in f"Unknown action: {action}".
UnknownActionText == <<"U","n","k","n","o","w","n"," ","a","c","t","i","o","n",":"," ">>

\* --------------------------------------------------------- key descriptors

\* A plain character handed to the controller.
Literal(c) == [tag |-> "Literal", char |-> c]

\* KeyCode.from_vk(vk).
PlatformCode(vk) == [tag |-> "PlatformCode", vk |-> vk]

\* A member of pynput's Key enumeration (Key.cmd, Key.shift, Key.print_screen).
Key(name) == [tag |-> "Key", name |-> name]

\* ------------------------------------------------------ platform resolver

Platforms == {"Darwin", "Windows", "Linux"}

Digits == {"1", "2", "3", "4", "5", "6", "7"}

\* Characters _make_key is called with: the digits the registry uses, the
\* other digits, letters and punctuation.
Chars ==
    {"0", "1", "2", "3", "4", "5", "6", "7", "8", "9",
     "a", "b", "c", "d", "e", "f", "g", "h", "i", "j", "k", "l", "m",
     "n", "o", "p", "q", "r", "s", "t", "u", "v", "w", "x", "y", "z",
     "A", "I", "!", "@", "#", " ", "/", "-", "_"}

_NUMBER_VK_Ordered ==
    [s \in {"Darwin", "Windows"} |->
        IF s = "Darwin"
        THEN ("1" :> 18 @@ "2" :> 19 @@ "3" :> 20 @@ "4" :> 21 @@
              "5" :> 22 @@ "6" :> 23 @@ "7" :> 26)
        ELSE ("1" :> 49 @@ "2" :> 50 @@ "3" :> 51 @@ "4" :> 52 @@
              "5" :> 53 @@ "6" :> 54 @@ "7" :> 55)]

\* Virtual key codes of the top-row number keys (0x31..0x37 on Windows).
_NUMBER_VK ==
    [s \in {"Darwin", "Windows"} |->
        IF s = "Darwin"
        THEN ("1" :> 18 @@ "2" :> 19 @@ "3" :> 20 @@ "4" :> 21 @@
              "5" :> 23 @@ "6" :> 22 @@ "7" :> 26)
        ELSE ("1" :> 49 @@ "2" :> 50 @@ "3" :> 51 @@ "4" :> 52 @@
              "5" :> 53 @@ "6" :> 54 @@ "7" :> 55)]

\* _make_key(char) when platform.system() returns system.
_make_key(char, system) ==
    IF system \in DOMAIN _NUMBER_VK /\ char \in DOMAIN _NUMBER_VK[system]
    THEN PlatformCode(_NUMBER_VK[system][char])
    ELSE Literal(char)

\* ---------------------------------------------------------------- registry

KEYS_literal_ShiftsSwapped(system) ==
    shift_up :> Literal("k") @@
    shift_down :> Literal("i") @@
    steer_left :> Literal("a") @@
    steer_right :> Literal("d") @@
    emote_1 :> _make_key("1", system) @@
    emote_2 :> _make_key("2", system) @@
    emote_3 :> _make_key("3", system) @@
    emote_4 :> _make_key("4", system) @@
    emote_5 :> _make_key("5", system) @@
    emote_6 :> _make_key("6", system) @@
    emote_7 :> _make_key("7", system) @@
    ui_toggle :> Literal("u") @@
    hide_ui :> Literal("h")

KEYS_literal_WithoutHideUi(system) ==
    shift_up :> Literal("i") @@
    shift_down :> Literal("k") @@
    steer_left :> Literal("a") @@
    steer_right :> Literal("d") @@
    emote_1 :> _make_key("1", system) @@
    emote_2 :> _make_key("2", system) @@
    emote_3 :> _make_key("3", system) @@
    emote_4 :> _make_key("4", system) @@
    emote_5 :> _make_key("5", system) @@
    emote_6 :> _make_key("6", system) @@
    emote_7 :> _make_key("7", system) @@
    ui_toggle :> Literal("u")

\* The dict literal KEYS, evaluated at import when platform.system() returns
\* system.
KEYS_literal(system) ==
    shift_up :> Literal("i") @@
    shift_down :> Literal("k") @@
    steer_left :> Literal("a") @@
    steer_right :> Literal("d") @@
    emote_1 :> _make_key("1", system) @@
    emote_2 :> _make_key("2", system) @@
    emote_3 :> _make_key("3", system) @@
    emote_4 :> _make_key("4", system) @@
    emote_5 :> _make_key("5", system) @@
    emote_6 :> _make_key("6", system) @@
    emote_7 :> _make_key("7", system) @@
    ui_toggle :> Literal("u") @@
    hide_ui :> Literal("h")

\* ------------------------------------------------------------- screenshot

\* One call on the keyboard controller.
KeyEvent(op, key) == [op |-> op, key |-> key]

_screenshot_CmdLeftDown(system) ==
    IF system = "Darwin"
    THEN << KeyEvent("press", Key("cmd")),
            KeyEvent("press", Key("shift")),
            KeyEvent("press", Literal("3")),
            KeyEvent("release", Literal("3")),
            KeyEvent("release", Key("shift")) >>
    ELSE IF system = "Windows"
    THEN << KeyEvent("press", Key("print_screen")),
            KeyEvent("release", Key("print_screen")) >>
    ELSE << >>

_screenshot_ModifiersReleasedInOrder(system) ==
    IF system = "Darwin"
    THEN << KeyEvent("press", Key("cmd")),
            KeyEvent("press", Key("shift")),
            KeyEvent("press", Literal("3")),
            KeyEvent("release", Literal("3")),
            KeyEvent("release", Key("cmd")),
            KeyEvent("release", Key("shift")) >>
    ELSE IF system = "Windows"
    THEN << KeyEvent("press", Key("print_screen")),
            KeyEvent("release", Key("print_screen")) >>
    ELSE << >>

\* The controller calls _screenshot() makes, in order, when platform.system()
\* returns system. keyboard.pressed(k) presses k on entry and releases it on
\* exit of the with block.
_screenshot(system) ==
    IF system = "Darwin"
    THEN << KeyEvent("press", Key("cmd")),
            KeyEvent("press", Key("shift")),
            KeyEvent("press", Literal("3")),
            KeyEvent("release", Literal("3")),
            KeyEvent("release", Key("shift")),
            KeyEvent("release", Key("cmd")) >>
    ELSE IF system = "Windows"
    THEN << KeyEvent("press", Key("print_screen")),
            KeyEvent("release", Key("print_screen")) >>
    ELSE << >>

\* --------------------------------------------------------------- requests

\* What follows "/key/" in the request paths of the model: the registry's
\* keys, screenshot, and names the registry does not hold (unknown, empty,
\* a known name with a trailing slash, a query string or another case, an
\* eighth emote).
ActionTexts ==
    {shift_up, shift_down, steer_left, steer_right,
     emote_1, emote_2, emote_3, emote_4, emote_5, emote_6, emote_7,
     ui_toggle, hide_ui, screenshot,
     <<"b","o","g","u","s">>,
     << >>,
     shift_up \o <<"/">>,
     shift_up \o <<"?","x">>,
     <<"S">> \o Tail(shift_up),
     emote_ \o <<"8">>,
     screenshot \o <<"/">>}

\* Paths outside "/key/": the two pages, and near misses of both routes.
OtherPaths ==
    {RootPath,
     IndexPath,
     IndexPath \o <<"?","x">>,
     <<"/","u","n","k","n","o","w","n">>,
     <<"/","k","e","y">>,
     <<"/","k","e","y","s","/">> \o shift_up,
     Tail(KeyPrefix) \o screenshot,
     <<"/">> \o KeyPrefix \o shift_up}

KeyPaths == {KeyPrefix \o a : a \in ActionTexts}

Request(verb, path) == [verb |-> verb, path |-> path]

\* The request lines of the model: every path is posted; the paths outside
\* "/key/" and three inside it are fetched.
Requests ==
    {Request("POST", p) : p \in KeyPaths \cup OtherPaths} \cup
    {Request("GET", p) : p \in OtherPaths \cup
        {KeyPrefix, KeyPrefix \o shift_up, KeyPrefix \o screenshot}}

\* s.startswith(prefix)
startswith(s, prefix) ==
    /\ Len(s) >= Len(prefix)
    /\ SubSeq(s, 1, Len(prefix)) = prefix

SliceFromInclusive(s, n) == SubSeq(s, n, Len(s))

\* s[n:]
SliceFrom(s, n) == SubSeq(s, n + 1, Len(s))

NoKey == [tag |-> "None"]

\* The handler of an accepted request: pc is where it stands, action, key
\* and i are do_POST's locals and the position in _screenshot().
NewHandler(req) ==
    [verb |-> req.verb, path |-> req.path,
     pc |-> IF req.verb = "GET" THEN "do_GET" ELSE "do_POST",
     action |-> << >>, key |-> NoKey, i |-> 0]

Conns == 1..Len(conns)

\* ----------------------------------------------------------------- the log

\* Calls on the keyboard controller (press, release), on the registry
\* (lookup: the test action in KEYS), of _screenshot, and on the response.
Injected(r, e) == [conn |-> r, op |-> e.op, key |-> e.key]
Lookup(r, action) == [conn |-> r, op |-> "lookup", action |-> action]
Called(r, fn) == [conn |-> r, op |-> "call", fn |-> fn]
SendResponse(r, code) == [conn |-> r, op |-> "send_response", code |-> code]
SendHeader(r, name, value) ==
    [conn |-> r, op |-> "send_header", name |-> name, value |-> value]
EndHeaders(r) == [conn |-> r, op |-> "end_headers"]
Write(r, body) == [conn |-> r, op |-> "write", body |-> body]
SendError(r, code, message) ==
    [conn |-> r, op |-> "send_error", code |-> code, message |-> message]

\* send_error(404) gives no message.
NoMessage == << >>

\* HTML_PAGE.encode()
HtmlBody == [text |-> "HTML_PAGE", encoding |-> "utf-8"]

\* ------------------------------------------------------------------ server

ServerIdleThreading == TRUE

\* HTTPServer is socketserver.TCPServer without a threading mix-in:
\* serve_forever() runs one handler to its end before it accepts the next
\* connection.
ServerIdle == \A r \in Conns : conns[r].pc = "done"

\* A client connects; the connection waits in the listening socket's queue.
Connect ==
    /\ Len(conns) + backlog < MaxRequests
    /\ backlog' = backlog + 1
    /\ UNCHANGED <<platform, KEYS, conns, log, ret>>

\* serve_forever() accepts a waiting connection, the handler reads the
\* request line req and the base class calls do_GET or do_POST by its verb.
Accept(req) ==
    /\ ServerIdle
    /\ backlog > 0
    /\ backlog' = backlog - 1
    /\ conns' = Append(conns, NewHandler(req))
    /\ UNCHANGED <<platform, KEYS, log, ret>>

IsIndexIgnoringQuery(path) == path = RootPath \/ startswith(path, IndexPath)

\* The test of do_GET's if.
IsIndex(path) == path = RootPath \/ path = IndexPath

do_GET(r) ==
    /\ conns[r].pc = "do_GET"
    /\ log' = IF IsIndex(conns[r].path)
              THEN log \o << SendResponse(r, 200),
                             SendHeader(r, "Content-type", "text/html"),
                             EndHeaders(r),
                             Write(r, HtmlBody) >>
              ELSE Append(log, SendError(r, 404, NoMessage))
    /\ conns' = [conns EXCEPT ![r].pc = "done"]
    /\ UNCHANGED <<platform, KEYS, backlog, ret>>

do_POST_LookupFirst(r) ==
    LET path == conns[r].path
        action == SliceFrom(path, 5)
    IN  /\ conns[r].pc = "do_POST"
        /\ IF startswith(path, KeyPrefix)
           THEN IF action \in DOMAIN KEYS
                THEN /\ log' = Append(log, Lookup(r, action))
                     /\ conns' = [conns EXCEPT ![r].pc = "press",
                                               ![r].action = action,
                                               ![r].key = KEYS[action]]
                ELSE IF action = screenshot
                THEN /\ log' = log \o << Lookup(r, action), Called(r, "_screenshot") >>
                     /\ conns' = [conns EXCEPT ![r].pc = "_screenshot",
                                               ![r].action = action,
                                               ![r].i = 1]
                ELSE /\ log' = log \o << Lookup(r, action),
                                         SendError(r, 404, UnknownActionText \o action) >>
                     /\ conns' = [conns EXCEPT ![r].pc = "done",
                                               ![r].action = action]
           ELSE /\ log' = Append(log, SendError(r, 404, NoMessage))
                /\ conns' = [conns EXCEPT ![r].pc = "done"]
        /\ UNCHANGED <<platform, KEYS, backlog, ret>>

\* do_POST up to its first call on the keyboard: the prefix test, the slice,
\* and the choice among screenshot, a registry key and the two 404s.
do_POST(r) ==
    LET path == conns[r].path
        action == SliceFrom(path, 5)
    IN  /\ conns[r].pc = "do_POST"
        /\ IF startswith(path, KeyPrefix)
           THEN IF action = screenshot
                THEN /\ log' = Append(log, Called(r, "_screenshot"))
                     /\ conns' = [conns EXCEPT ![r].pc = "_screenshot",
                                               ![r].action = action,
                                               ![r].i = 1]
                ELSE IF action \in DOMAIN KEYS
                THEN /\ log' = Append(log, Lookup(r, action))
                     /\ conns' = [conns EXCEPT ![r].pc = "press",
                                               ![r].action = action,
                                               ![r].key = KEYS[action]]
                ELSE /\ log' = log \o << Lookup(r, action),
                                         SendError(r, 404, UnknownActionText \o action) >>
                     /\ conns' = [conns EXCEPT ![r].pc = "done",
                                               ![r].action = action]
           ELSE /\ log' = Append(log, SendError(r, 404, NoMessage))
                /\ conns' = [conns EXCEPT ![r].pc = "done"]
        /\ UNCHANGED <<platform, KEYS, backlog, ret>>

Press_PopsKey(r) ==
    /\ conns[r].pc = "press"
    /\ log' = Append(log, Injected(r, KeyEvent("press", conns[r].key)))
    /\ conns' = [conns EXCEPT ![r].pc = "release"]
    /\ KEYS' = [a \in DOMAIN KEYS \ {conns[r].action} |-> KEYS[a]]
    /\ UNCHANGED <<platform, backlog, ret>>

\* keyboard.press(key)
Press(r) ==
    /\ conns[r].pc = "press"
    /\ log' = Append(log, Injected(r, KeyEvent("press", conns[r].key)))
    /\ conns' = [conns EXCEPT ![r].pc = "release"]
    /\ UNCHANGED <<platform, KEYS, backlog, ret>>

ReleaseSkipped(r) ==
    /\ conns[r].pc = "release"
    /\ conns' = [conns EXCEPT ![r].pc = "respond"]
    /\ UNCHANGED <<platform, KEYS, backlog, log, ret>>

\* keyboard.release(key)
Release(r) ==
    /\ conns[r].pc = "release"
    /\ log' = Append(log, Injected(r, KeyEvent("release", conns[r].key)))
    /\ conns' = [conns EXCEPT ![r].pc = "respond"]
    /\ UNCHANGED <<platform, KEYS, backlog, ret>>

\* The next controller call of _screenshot(); platform.system() is read by
\* the call.
ScreenshotStep(r) ==
    /\ conns[r].pc = "_screenshot"
    /\ conns[r].i <= Len(_screenshot(platform))
    /\ log' = Append(log, Injected(r, _screenshot(platform)[conns[r].i]))
    /\ conns' = [conns EXCEPT ![r].i = @ + 1]
    /\ UNCHANGED <<platform, KEYS, backlog, ret>>

\* _screenshot() returns.
ScreenshotReturn(r) ==
    /\ conns[r].pc = "_screenshot"
    /\ conns[r].i > Len(_screenshot(platform))
    /\ conns' = [conns EXCEPT ![r].pc = "respond", ![r].i = 0]
    /\ UNCHANGED <<platform, KEYS, backlog, log, ret>>

\* send_response(200); end_headers() of the two successful branches.
Respond(r) ==
    /\ conns[r].pc = "respond"
    /\ log' = log \o << SendResponse(r, 200), EndHeaders(r) >>
    /\ conns' = [conns EXCEPT ![r].pc = "done"]
    /\ UNCHANGED <<platform, KEYS, backlog, ret>>

NoCall == [called |-> FALSE]

\* The process after import: the registry is built for the platform, no
\* request has arrived.
Init ==
    /\ platform \in Platforms
    /\ KEYS = KEYS_literal(platform)
    /\ backlog = 0
    /\ conns = << >>
    /\ log = << >>
    /\ ret = NoCall

Next ==
    \/ Connect
    \/ \E req \in Requests : Accept(req)
    \/ \E r \in Conns : do_GET(r)
    \/ \E r \in Conns : do_POST(r)
    \/ \E r \in Conns : Press(r)
    \/ \E r \in Conns : Release(r)
    \/ \E r \in Conns : ScreenshotStep(r)
    \/ \E r \in Conns : ScreenshotReturn(r)
    \/ \E r \in Conns : Respond(r)

Spec == Init /\ [][Next]_vars

\* ------------------------------------------------- _make_key called directly

\* A caller (the unit tests) calls _make_key(char).
Call_make_key(char) ==
    /\ ret' = [called |-> TRUE, char |-> char, system |-> platform,
               value |-> _make_key(char, platform)]
    /\ UNCHANGED <<platform, KEYS, backlog, conns, log>>

\* platform.system() is patched to return system.
PatchPlatform(system) ==
    /\ system # platform
    /\ platform' = system
    /\ UNCHANGED <<KEYS, backlog, conns, log, ret>>

NextMakeKey ==
    \/ \E char \in Chars : Call_make_key(char)
    \/ \E system \in Platforms : PatchPlatform(system)

SpecMakeKey == Init /\ [][NextMakeKey]_vars

\* ------------------------------------------- the keyboard controller raises

\* A controller call that raised instead of injecting its event, and the
\* exception leaving the handler (socketserver reports it and closes the
\* connection; nothing is written to the response).
Raised(r, e) == [conn |-> r, op |-> "raised", call |-> e.op, key |-> e.key]
HandleError(r) == [conn |-> r, op |-> "handle_error"]

\* The with blocks of _screenshot(): the position of each block's release
\* in _screenshot(system), mapped to the position of its press.
_screenshot_with(system) ==
    IF system = "Darwin" THEN (5 :> 2 @@ 6 :> 1) ELSE << >>

\* The releases still owed by the with blocks that were entered when the
\* call at position i of _screenshot() raised.
PendingExits(r) ==
    IF conns[r].action = screenshot
    THEN {j \in DOMAIN _screenshot_with(platform) :
              _screenshot_with(platform)[j] < conns[r].i /\ j > conns[r].i}
    ELSE {}

NextExit(r) == CHOOSE j \in PendingExits(r) : \A k \in PendingExits(r) : j <= k

\* keyboard.press(key) raises: do_POST has no try, the exception leaves it.
PressRaises(r) ==
    /\ conns[r].pc = "press"
    /\ log' = Append(log, Raised(r, KeyEvent("press", conns[r].key)))
    /\ conns' = [conns EXCEPT ![r].pc = "unwind"]
    /\ UNCHANGED <<platform, KEYS, backlog, ret>>

ReleaseRaises_Swallowed(r) ==
    /\ conns[r].pc = "release"
    /\ log' = Append(log, Raised(r, KeyEvent("release", conns[r].key)))
    /\ conns' = [conns EXCEPT ![r].pc = "respond"]
    /\ UNCHANGED <<platform, KEYS, backlog, ret>>

\* keyboard.release(key) raises.
ReleaseRaises(r) ==
    /\ conns[r].pc = "release"
    /\ log' = Append(log, Raised(r, KeyEvent("release", conns[r].key)))
    /\ conns' = [conns EXCEPT ![r].pc = "unwind"]
    /\ UNCHANGED <<platform, KEYS, backlog, ret>>

\* The next controller call of _screenshot() raises.
ScreenshotRaises(r) ==
    /\ conns[r].pc = "_screenshot"
    /\ conns[r].i <= Len(_screenshot(platform))
    /\ log' = Append(log, Raised(r, _screenshot(platform)[conns[r].i]))
    /\ conns' = [conns EXCEPT ![r].pc = "unwind"]
    /\ UNCHANGED <<platform, KEYS, backlog, ret>>

\* The exception leaves a with block: the block's key is released.
UnwindRelease(r) ==
    /\ conns[r].pc = "unwind"
    /\ PendingExits(r) # {}
    /\ log' = Append(log, Injected(r, _screenshot(platform)[NextExit(r)]))
    /\ conns' = [conns EXCEPT ![r].i = NextExit(r)]
    /\ UNCHANGED <<platform, KEYS, backlog, ret>>

\* The release of a with block raises in its turn.
UnwindRaises(r) ==
    /\ conns[r].pc = "unwind"
    /\ PendingExits(r) # {}
    /\ log' = Append(log, Raised(r, _screenshot(platform)[NextExit(r)]))
    /\ conns' = [conns EXCEPT ![r].i = NextExit(r)]
    /\ UNCHANGED <<platform, KEYS, backlog, ret>>

\* The exception leaves do_POST: no response call was made, the handler
\* is over and serve_forever() goes on.
Propagate(r) ==
    /\ conns[r].pc = "unwind"
    /\ PendingExits(r) = {}
    /\ log' = Append(log, HandleError(r))
    /\ conns' = [conns EXCEPT ![r].pc = "done", ![r].i = 0]
    /\ UNCHANGED <<platform, KEYS, backlog, ret>>

\* The request lines that reach the keyboard (the registry has the same
\* keys on every platform), and one that does not.
KeyboardRequests ==
    {Request("POST", KeyPrefix \o a) : a \in DOMAIN KEYS_literal("Linux") \cup {screenshot}}
    \cup {Request("POST", KeyPrefix \o <<"b","o","g","u","s">>)}

NextFaults ==
    \/ Connect
    \/ \E req \in KeyboardRequests : Accept(req)
    \/ \E r \in Conns : do_POST(r)
    \/ \E r \in Conns : Press(r)
    \/ \E r \in Conns : Release(r)
    \/ \E r \in Conns : ScreenshotStep(r)
    \/ \E r \in Conns : ScreenshotReturn(r)
    \/ \E r \in Conns : Respond(r)
    \/ \E r \in Conns : PressRaises(r)
    \/ \E r \in Conns : ReleaseRaises(r)
    \/ \E r \in Conns : ScreenshotRaises(r)
    \/ \E r \in Conns : UnwindRelease(r)
    \/ \E r \in Conns : UnwindRaises(r)
    \/ \E r \in Conns : Propagate(r)

SpecFaults == Init /\ [][NextFaults]_vars

\* ------------------------------------------------------ reading the log

Done(r) == conns[r].pc = "done"

\* Everything connection r did, in order.
LogOf(r) == SelectSeq(log, LAMBDA e : e.conn = r)

IsInput(e) == e.op \in {"press", "release"}

IsResponse(e) == e.op \in {"send_response", "send_header", "end_headers", "write", "send_error"}

\* What connection r did to the keyboard and to the response, in order.
Effects(r) == SelectSeq(log, LAMBDA e : e.conn = r /\ (IsInput(e) \/ IsResponse(e)))

\* The keyboard calls of connection r, in order.
InputsOf(r) == SelectSeq(log, LAMBDA e : e.conn = r /\ IsInput(e))

IsPrefix(s, t) == Len(s) <= Len(t) /\ s = SubSeq(t, 1, Len(s))

Range(f) == {f[x] : x \in DOMAIN f}

\* The thirteen names the registry is documented to hold.
RegistryActions ==
    {shift_up, shift_down, steer_left, steer_right,
     emote_1, emote_2, emote_3, emote_4, emote_5, emote_6, emote_7,
     ui_toggle, hide_ui}

\* The text of path after its first five characters.
AfterKey(path) == [j \in 1..(Len(path) - 5) |-> path[j + 5]]

\* path begins with the five characters /key/.
UnderKey(path) ==
    /\ Len(path) >= 5
    /\ path[1] = "/" /\ path[2] = "k" /\ path[3] = "e" /\ path[4] = "y" /\ path[5] = "/"

IsPost(r) == conns[r].verb = "POST"

IsGet(r) == conns[r].verb = "GET"

\* ------------------------------------------------------------------ claims

\* C1: for every registry action a, POST /key/a presses KEYS[a] once, then
\* at once releases it, touches the keyboard in no other way, and only then
\* sends 200; it never sends an error.
KeyTapOutcome(r, a) ==
    << Injected(r, KeyEvent("press", KEYS[a])),
       Injected(r, KeyEvent("release", KEYS[a])),
       SendResponse(r, 200),
       EndHeaders(r) >>

C1_KnownActionTapsThenOk ==
    \A r \in Conns :
        \A a \in RegistryActions :
            (IsPost(r) /\ conns[r].path = KeyPrefix \o a) =>
                /\ IsPrefix(Effects(r), KeyTapOutcome(r, a))
                /\ Done(r) => Effects(r) = KeyTapOutcome(r, a)
                /\ \A i \in 1..Len(log) :
                       (log[i] = Injected(r, KeyEvent("press", KEYS[a])) /\ i < Len(log))
                           => log[i + 1] = Injected(r, KeyEvent("release", KEYS[a]))

C1_Witness ==
    /\ platform = "Darwin"
    /\ \E r \in Conns :
           /\ Done(r) /\ IsPost(r)
           /\ conns[r].path = KeyPrefix \o emote_5
           /\ Effects(r) = << Injected(r, KeyEvent("press", PlatformCode(23))),
                              Injected(r, KeyEvent("release", PlatformCode(23))),
                              SendResponse(r, 200),
                              EndHeaders(r) >>

\* C2: a POST that names no known action gets a 404, no keyboard call and
\* no 200: under /key/ when the text after the prefix is neither screenshot
\* nor a registry key, with a message naming that text; outside /key/ with
\* no message.
NamesKnownAction(path) ==
    UnderKey(path) /\ (AfterKey(path) = screenshot \/ AfterKey(path) \in RegistryActions)

C2_UnknownPostIs404 ==
    \A r \in Conns :
        (IsPost(r) /\ ~NamesKnownAction(conns[r].path)) =>
            /\ conns[r].pc \in {"do_POST", "done"}
            /\ ~Done(r) => Effects(r) = << >>
            /\ Done(r) =>
                   Effects(r) =
                       << SendError(r, 404,
                              IF UnderKey(conns[r].path)
                              THEN UnknownActionText \o AfterKey(conns[r].path)
                              ELSE NoMessage) >>

C2_Witness ==
    \E r \in Conns :
        /\ Done(r) /\ IsPost(r)
        /\ conns[r].path = KeyPrefix \o shift_up \o <<"/">>
        /\ Effects(r) = << SendError(r, 404, UnknownActionText \o shift_up \o <<"/">>) >>

\* C3: POST /key/screenshot never tests or reads the registry, calls
\* _screenshot exactly once, presses no descriptor of the registry and
\* answers 200 on every platform, also where _screenshot touches no key.
C3_ScreenshotBypassesRegistry ==
    \A r \in Conns :
        (IsPost(r) /\ conns[r].path = KeyPrefix \o screenshot) =>
            /\ \A i \in 1..Len(log) :
                   log[i].conn = r =>
                       /\ log[i].op # "lookup"
                       /\ log[i].op # "send_error"
                       /\ log[i].op = "press" => log[i].key \notin Range(KEYS)
            /\ conns[r].pc # "do_POST" =>
                   /\ Len(SelectSeq(LogOf(r), LAMBDA e : e.op = "call")) = 1
                   /\ LogOf(r)[1] = Called(r, "_screenshot")
            /\ Done(r) =>
                   /\ SelectSeq(LogOf(r), IsResponse) = << SendResponse(r, 200), EndHeaders(r) >>
                   /\ SubSeq(LogOf(r), Len(LogOf(r)) - 1, Len(LogOf(r)))
                          = << SendResponse(r, 200), EndHeaders(r) >>

C3_Witness ==
    /\ platform = "Linux"
    /\ \E r \in Conns :
           /\ Done(r) /\ IsPost(r)
           /\ conns[r].path = KeyPrefix \o screenshot
           /\ LogOf(r) = << Called(r, "_screenshot"), SendResponse(r, 200), EndHeaders(r) >>

\* C4: the keyboard calls of _screenshot are, on macOS, cmd down, shift
\* down, 3 down, 3 up, shift up, cmd up in that order; on Windows print
\* screen down then up; on any other platform none, and the call returns.
HotkeyEvents(r) ==
    IF platform = "Darwin"
    THEN << [conn |-> r, op |-> "press", key |-> [tag |-> "Key", name |-> "cmd"]],
            [conn |-> r, op |-> "press", key |-> [tag |-> "Key", name |-> "shift"]],
            [conn |-> r, op |-> "press", key |-> [tag |-> "Literal", char |-> "3"]],
            [conn |-> r, op |-> "release", key |-> [tag |-> "Literal", char |-> "3"]],
            [conn |-> r, op |-> "release", key |-> [tag |-> "Key", name |-> "shift"]],
            [conn |-> r, op |-> "release", key |-> [tag |-> "Key", name |-> "cmd"]] >>
    ELSE IF platform = "Windows"
    THEN << [conn |-> r, op |-> "press", key |-> [tag |-> "Key", name |-> "print_screen"]],
            [conn |-> r, op |-> "release", key |-> [tag |-> "Key", name |-> "print_screen"]] >>
    ELSE << >>

C4_HotkeyChordOrder ==
    \A r \in Conns :
        (IsPost(r) /\ conns[r].path = KeyPrefix \o screenshot) =>
            /\ IsPrefix(InputsOf(r), HotkeyEvents(r))
            /\ conns[r].pc \in {"respond", "done"} => InputsOf(r) = HotkeyEvents(r)

C4_Witness ==
    /\ platform = "Darwin"
    /\ \E r \in Conns :
           /\ conns[r].pc = "respond"
           /\ conns[r].path = KeyPrefix \o screenshot
           /\ Len(InputsOf(r)) = 6
           /\ InputsOf(r)[1].key = Key("cmd")
           /\ InputsOf(r)[6].key = Key("cmd")

\* C5: _make_key returns a value for every character on every platform:
\* on macOS the key codes 18, 19, 20, 21, 23, 22, 26 for the characters 1 to
\* 7, on Windows the key code 0x30 + n for the digit n in 1..7, and the
\* character itself on any other platform and for any other character.
DigitValue(c) ==
    CASE c = "1" -> 1 [] c = "2" -> 2 [] c = "3" -> 3 [] c = "4" -> 4
      [] c = "5" -> 5 [] c = "6" -> 6 [] c = "7" -> 7

MacCode(c) ==
    CASE c = "1" -> 18 [] c = "2" -> 19 [] c = "3" -> 20 [] c = "4" -> 21
      [] c = "5" -> 23 [] c = "6" -> 22 [] c = "7" -> 26

ResolveDigitReference(c, p) ==
    IF p = "Darwin" /\ c \in Digits
    THEN [tag |-> "PlatformCode", vk |-> MacCode(c)]
    ELSE IF p = "Windows" /\ c \in Digits
    THEN [tag |-> "PlatformCode", vk |-> 48 + DigitValue(c)]
    ELSE [tag |-> "Literal", char |-> c]

C5_MakeKeyMatchesTable ==
    ret.called => ret.value = ResolveDigitReference(ret.char, ret.system)

C5_Witness ==
    /\ ret.called
    /\ ret.system = "Darwin"
    /\ ret.char = "6"
    /\ ret.value = [tag |-> "PlatformCode", vk |-> 22]

\* C6: the registry holds the same literal on every platform for the six
\* actions without a digit (i, k, a, d, u, h), never a platform code, and
\* for emote_n what _make_key gives for the character n on the platform the
\* process started on.
NonDigitActions == {shift_up, shift_down, steer_left, steer_right, ui_toggle, hide_ui}

C6_RegistryEntries ==
    /\ KEYS[shift_up] = [tag |-> "Literal", char |-> "i"]
    /\ KEYS[shift_down] = [tag |-> "Literal", char |-> "k"]
    /\ KEYS[steer_left] = [tag |-> "Literal", char |-> "a"]
    /\ KEYS[steer_right] = [tag |-> "Literal", char |-> "d"]
    /\ KEYS[ui_toggle] = [tag |-> "Literal", char |-> "u"]
    /\ KEYS[hide_ui] = [tag |-> "Literal", char |-> "h"]
    /\ \A a \in NonDigitActions : KEYS[a].tag # "PlatformCode"
    /\ \A d \in Digits : KEYS[emote_ \o <<d>>] = _make_key(d, platform)

C6_Witness ==
    /\ platform = "Windows"
    /\ KEYS[emote_2] = [tag |-> "PlatformCode", vk |-> 50]
    /\ KEYS[shift_down] = [tag |-> "Literal", char |-> "k"]
    /\ \E r \in Conns :
           /\ Done(r)
           /\ conns[r].action = shift_down
           /\ conns[r].key = [tag |-> "Literal", char |-> "k"]

\* C7, as stated: every action of the enumerated set, screenshot included,
\* has a descriptor in the registry before the first request is served.
EnumeratedActions == RegistryActions \cup {screenshot}

C7_EveryEnumeratedActionResolves ==
    \A a \in EnumeratedActions : a \in DOMAIN KEYS

\* C7, amended: each of the thirteen registry actions has a descriptor (a
\* literal or a platform code) before the first request is served and keeps
\* it through every step of every request; screenshot has no registry
\* entry.
C7_RegistryActionsResolveForever ==
    /\ [](/\ \A a \in RegistryActions :
                /\ a \in DOMAIN KEYS
                /\ KEYS[a].tag \in {"Literal", "PlatformCode"}
          /\ screenshot \notin DOMAIN KEYS)
    /\ [][\A a \in RegistryActions : KEYS'[a] = KEYS[a]]_vars

C7_Witness ==
    /\ Len(conns) = 2
    /\ \A r \in Conns :
           /\ Done(r)
           /\ conns[r].action = hide_ui
           /\ conns[r].key = KEYS[hide_ui]
    /\ screenshot \notin DOMAIN KEYS

\* C8: GET of exactly / or exactly /index.html answers 200 with
\* Content-type text/html and the same body; GET of any other path answers
\* 404; no GET touches the keyboard.
PageOutcome(r) ==
    << SendResponse(r, 200),
       SendHeader(r, "Content-type", "text/html"),
       EndHeaders(r),
       Write(r, HtmlBody) >>

C8_GetRouting ==
    \A r \in Conns :
        IsGet(r) =>
            /\ InputsOf(r) = << >>
            /\ conns[r].pc \in {"do_GET", "done"}
            /\ ~Done(r) => LogOf(r) = << >>
            /\ Done(r) =>
                   IF conns[r].path = <<"/">> \/
                      conns[r].path = <<"/","i","n","d","e","x",".","h","t","m","l">>
                   THEN LogOf(r) = PageOutcome(r)
                   ELSE LogOf(r) = << SendError(r, 404, NoMessage) >>

C8_Witness ==
    /\ Len(conns) = 2
    /\ Done(1) /\ Done(2)
    /\ IsGet(1) /\ IsGet(2)
    /\ conns[1].path = IndexPath \o <<"?","x">>
    /\ conns[2].path = IndexPath
    /\ LogOf(1) = << SendError(1, 404, NoMessage) >>
    /\ LogOf(2)[4].body = HtmlBody

\* C9: in the order the keyboard receives them, the calls of one request
\* form one unbroken block: once a call of another request follows, no call
\* of the first request comes later (so no key tap falls between the cmd
\* down and the cmd up of a screenshot).
AllInputs == SelectSeq(log, IsInput)

C9_RequestEventsContiguous ==
    \A i \in 1..(Len(AllInputs) - 1) :
        AllInputs[i + 1].conn # AllInputs[i].conn =>
            \A k \in (i + 2)..Len(AllInputs) : AllInputs[k].conn # AllInputs[i].conn

C9_Witness ==
    /\ platform = "Darwin"
    /\ Len(conns) = 2
    /\ conns[1].path = KeyPrefix \o screenshot
    /\ conns[2].path = KeyPrefix \o steer_left
    /\ Done(1) /\ Done(2)
    /\ Len(AllInputs) = 8
    /\ \A i \in 1..6 : AllInputs[i].conn = 1
    /\ \A i \in 7..8 : AllInputs[i].conn = 2

\* C10: no step of any request changes the registry or the platform, and
\* what a request does (its status and its keyboard calls, in order) is a
\* function of its verb, its path and the platform alone: it is what the
\* same request does as the first request of the process.
OutcomeAlone(r, verb, path, system) ==
    IF verb = "GET"
    THEN IF path = RootPath \/ path = IndexPath
         THEN PageOutcome(r)
         ELSE << SendError(r, 404, NoMessage) >>
    ELSE IF ~UnderKey(path)
    THEN << SendError(r, 404, NoMessage) >>
    ELSE IF AfterKey(path) = screenshot
    THEN << Called(r, "_screenshot") >>
         \o [j \in 1..Len(_screenshot(system)) |-> Injected(r, _screenshot(system)[j])]
         \o << SendResponse(r, 200), EndHeaders(r) >>
    ELSE IF AfterKey(path) \in DOMAIN KEYS_literal(system)
    THEN << Lookup(r, AfterKey(path)),
            Injected(r, KeyEvent("press", KEYS_literal(system)[AfterKey(path)])),
            Injected(r, KeyEvent("release", KEYS_literal(system)[AfterKey(path)])),
            SendResponse(r, 200),
            EndHeaders(r) >>
    ELSE << Lookup(r, AfterKey(path)),
            SendError(r, 404, UnknownActionText \o AfterKey(path)) >>

C10_RouterIsStateless ==
    /\ [](\A r \in Conns :
              LET alone == OutcomeAlone(r, conns[r].verb, conns[r].path, platform)
              IN  /\ IsPrefix(LogOf(r), alone)
                  /\ Done(r) => LogOf(r) = alone)
    /\ [][KEYS' = KEYS /\ platform' = platform]_vars

C10_Witness ==
    /\ platform = "Linux"
    /\ Len(conns) = 2
    /\ Done(1) /\ Done(2)
    /\ conns[1].verb = "POST" /\ conns[2].verb = "POST"
    /\ conns[1].path = KeyPrefix \o emote_3
    /\ conns[2].path = KeyPrefix \o emote_3
    /\ Effects(1)[1].key = Literal("3")
    /\ Effects(2)[1].key = Literal("3")
    /\ Effects(2)[3].code = 200

\* C11: when a controller call raises during the press or the release of
\* POST /key/<known action>, or during the screenshot hotkey, the exception
\* leaves the handler and the request gets no response at all (no 200, no
\* 404, no 500); a 200 is sent only after every keyboard call of the
\* request was made without raising.
HasRaised(r) == \E i \in 1..Len(log) : log[i].conn = r /\ log[i].op = "raised"

HasResponse(r) == \E i \in 1..Len(log) : log[i].conn = r /\ IsResponse(log[i])

EventsOwed(r) ==
    IF AfterKey(conns[r].path) = screenshot
    THEN HotkeyEvents(r)
    ELSE << [conn |-> r, op |-> "press", key |-> KEYS[AfterKey(conns[r].path)]],
            [conn |-> r, op |-> "release", key |-> KEYS[AfterKey(conns[r].path)]] >>

C11_FaultPropagatesWithoutResponse ==
    \A r \in Conns :
        NamesKnownAction(conns[r].path) =>
            /\ ~(HasRaised(r) /\ HasResponse(r))
            /\ (HasRaised(r) /\ Done(r)) => LogOf(r)[Len(LogOf(r))] = HandleError(r)
            /\ HasResponse(r) =>
                   /\ InputsOf(r) = EventsOwed(r)
                   /\ SelectSeq(LogOf(r), IsResponse) = << SendResponse(r, 200), EndHeaders(r) >>

C11_Witness ==
    /\ platform = "Darwin"
    /\ \E r \in Conns :
           /\ Done(r)
           /\ conns[r].path = KeyPrefix \o screenshot
           /\ LogOf(r) = << Called(r, "_screenshot"),
                            Injected(r, KeyEvent("press", Key("cmd"))),
                            Injected(r, KeyEvent("press", Key("shift"))),
                            Raised(r, KeyEvent("press", Literal("3"))),
                            Injected(r, KeyEvent("release", Key("shift"))),
                            Injected(r, KeyEvent("release", Key("cmd"))),
                            HandleError(r) >>
    /\ \E q \in Conns :
           /\ Done(q)
           /\ conns[q].path = KeyPrefix \o hide_ui
           /\ LogOf(q) = << Lookup(q, hide_ui),
                            Injected(q, KeyEvent("press", Literal("h"))),
                            Raised(q, KeyEvent("release", Literal("h"))),
                            HandleError(q) >>

\* C12: when no controller call raises, every request that has been
\* answered holds no key down: each key it pressed, the cmd and shift of
\* the macOS screenshot included, it released before its response; and
\* when every accepted request is over, no key is down at all.
RECURSIVE HeldAfter(_)
HeldAfter(s) ==
    IF s = << >>
    THEN {}
    ELSE LET before == HeldAfter(SubSeq(s, 1, Len(s) - 1))
             e == s[Len(s)]
         IN  IF e.op = "press" THEN before \cup {e.key}
             ELSE IF e.op = "release" THEN before \ {e.key}
             ELSE before

C12_NoKeyHeldAtResponse ==
    /\ \A r \in Conns : HasResponse(r) => HeldAfter(LogOf(r)) = {}
    /\ (\A r \in Conns : Done(r)) => HeldAfter(log) = {}

C12_Witness ==
    /\ platform = "Darwin"
    /\ Len(conns) = 2
    /\ conns[1].path = KeyPrefix \o screenshot
    /\ conns[2].path = KeyPrefix \o emote_4
    /\ conns[2].pc = "release"
    /\ HasResponse(1)
    /\ Len(InputsOf(1)) = 6
    /\ HeldAfter(LogOf(1)) = {}
    /\ HeldAfter(log) = {PlatformCode(21)}

====
